---- MODULE Spec2Model ----
(***************************************************************************)
(* Model of kra_api/utils.py: the token cache of fetch_kra_token and the   *)
(* retry / refresh loop of call_kra_endpoint, and of the three POST        *)
(* handlers of kra_api/views.py that call them.                            *)
(*                                                                         *)
(* A request slot runs one call at a time: a direct fetch_kra_token call   *)
(* (as GetTokenView.post makes with force_refresh=True) or a               *)
(* call_kra_endpoint call.  Every network exchange is one step whose       *)
(* outcome is chosen by the environment; the cache is shared by the slots. *)
(***************************************************************************)
EXTENDS Integers, Sequences, FiniteSets, TLC

----------------------------------------------------------------------------
(* Bounds of the model *)

\* largest max_retries a call_kra_endpoint call is started with
MaxRetriesBound == 2
\* number of clock ticks of TickStep seconds the model lets pass
MaxTicks == 2
\* the history counters of a call (POSTs, 401s, token requests) saturate here
CountCap == 3
\* the history counter of the 401 answers of a call saturates here
Cap401 == 2

\* seconds that pass in one clock tick (half the cache timeout)
TickStep == 1800

\* cache.set(cache_key, access_token, timeout=3600)
TokenTimeout == 3600

----------------------------------------------------------------------------
(* Values *)

\* request slots: the ViewSlots serve POST /token/ (GetTokenView.post), the
\* others run the calls a caller of utils.py makes; only ForwardSlots run
\* call_kra_endpoint
Slots == {"r1", "r2"}
ForwardSlots == {"r1"}
ViewSlots == {"r2"}

\* TokenRequestSerializer: app = ChoiceField(choices=["app1", "app2"])
AppChoices == {"app1", "app2"}

\* the app names a caller can pass; appX is one settings.KRA_APPS never holds
AppNames == AppChoices \cup {"appX"}

\* A text (Python str) is its non-blank core with the number of whitespace
\* characters before and after it.  The core is one of
\*   k = "empty"  nothing
\*   k = "bare"   characters v that are no JSON document (a bare token)
\*   k = "jstr"   the JSON string "v"
\*   k = "obj"    a JSON object; at tells whether its access_token member is
\*                absent, null, or the string v; for an object without
\*                access_token v names the rest of its content
\*   k = "None"   no text at all: Python's None
Doc(k, at, v) == [k |-> k, at |-> at, v |-> v]
Txt(lead, doc, trail) == [lead |-> lead, doc |-> doc, trail |-> trail]
Str(v) == Txt(0, Doc("bare", "-", v), 0)
EmptyText == Txt(0, Doc("empty", "-", ""), 0)
None == Txt(0, Doc("None", "-", ""), 0)
NoDoc == Doc("None", "-", "")

\* str.strip(): the text without the whitespace around it
Strip(t) == IF t.doc.k = "empty" THEN EmptyText ELSE Txt(0, t.doc, 0)

\* Python truth of a cached value or of dict.get's result
Truthy(x) == x # None /\ x # EmptyText

\* response.json(): the document of the body, whitespace around it ignored;
\* a body that is no JSON document raises
JsonParse(t) ==
    IF t.doc.k \in {"obj", "jstr"}
    THEN [ok |-> TRUE, val |-> t.doc]
    ELSE [ok |-> FALSE, val |-> NoDoc]

\* token_data.get("access_token"): only a dict has .get; a missing or null
\* member gives None
DictGet(d) ==
    IF d.k # "obj" THEN [ok |-> FALSE, val |-> None]
    ELSE IF d.at = "str" THEN [ok |-> TRUE, val |-> IF d.v = "" THEN EmptyText ELSE Str(d.v)]
    ELSE [ok |-> TRUE, val |-> None]

----------------------------------------------------------------------------
(* What the network can answer *)

\* an HTTP response, or the exception the request raised instead
Resp(status, text, hdrs) ==
    [kind |-> "response", status |-> status, text |-> text, headers |-> hdrs]
TimeoutExc == [kind |-> "timeout", status |-> 0, text |-> None, headers |-> {}]
ConnectionExc == [kind |-> "error", status |-> 0, text |-> None, headers |-> {}]
Unbound == [kind |-> "unbound", status |-> 0, text |-> None, headers |-> {}]

\* response.ok
Ok(resp) == resp.status < 400

\* response.headers.get(name, default)
HeaderGet(hdrs, name, default) ==
    IF \E p \in hdrs : p[1] = name
    THEN (CHOOSE p \in hdrs : p[1] = name)[2]
    ELSE default

\* answers of the token endpoint of an app (app_config["token_url"])
TokenResponses(a) ==
    IF a = "app1" THEN
      { Resp(200, Txt(0, Doc("obj", "str", "A1"), 1), {}),
        Resp(200, Txt(1, Doc("obj", "absent", "x"), 1), {}),
        Resp(200, Txt(0, Doc("bare", "-", "A1"), 1), {}),
        Resp(401, Str("denied"), {}),
        ConnectionExc }
    ELSE
      { Resp(200, Txt(0, Doc("obj", "str", "B1"), 0), {}),
        Resp(200, Txt(0, Doc("jstr", "-", "B1"), 0), {}),
        Resp(200, Txt(1, Doc("empty", "-", ""), 0), {}) }

\* answers of the upstream lookup endpoint to a POST
UpstreamResponses ==
    { Resp(200, Txt(0, Doc("obj", "absent", "pin"), 1),
           {<<"x-request-id", "rid-1">>, <<"date", "d-1">>}),
      Resp(200, Str("OK"), {}),
      Resp(401, Str("expired"), {<<"date", "d-1">>}),
      Resp(403, Str("forbidden"), {<<"x-request-id", "rid-1">>}),
      Resp(504, Str("gateway"), {}),
      TimeoutExc,
      ConnectionExc }

----------------------------------------------------------------------------
(* State *)

VARIABLES
    now,      \* the clock, in seconds
    cache,    \* django.core.cache: per cache key the value set and its expiry
    call,     \* per request slot: the locals of the call it runs, and its history
    settings, \* django.conf.settings: KRA_APPS and the two lookup URLs
    handler   \* per request slot: the view that handles a request, and how far it is

vars == <<now, cache, call, settings, handler>>

\* settings.KRA_APPS: the app names that have credentials and a token URL
KRA_APPS == settings.KRA_APPS

\* a lookup URL setting that settings.py does not define
Unset == "unset"
\* settings with app1 and app2 and both lookup URLs configured
DefaultSettings ==
    [KRA_APPS |-> {"app1", "app2"},
     KRA_PIN_BY_ID_URL |-> "https://kra/pin-by-id",
     KRA_PIN_BY_PIN_URL |-> "https://kra/pin-by-pin"]

\* a slot whose view handles no request
NoRequest == [view |-> "-", stage |-> "none"]

\* f'Bearer {token}'
Bearer(t) == [scheme |-> "Bearer", cred |-> t]
NoAuth == [scheme |-> "-", cred |-> None]

NoResult ==
    [kind |-> "none", token |-> None, json |-> NoDoc, code |-> "",
     message |-> None, requestId |-> "", timestamp |-> ""]
TokenResult(t) == [NoResult EXCEPT !.kind = "token", !.token = t]
JsonResult(d) == [NoResult EXCEPT !.kind = "json", !.json = d]
Failure(kind, msg) == [NoResult EXCEPT !.kind = kind, !.message = msg]

\* ErrorDetails reporting a fixed code instead of the response's status
ErrorDetails_FixedCode(resp) ==
    [NoResult EXCEPT
        !.kind = "UpstreamError",
        !.requestId = HeaderGet(resp.headers, "x-request-id", "unknown"),
        !.code = "500",
        !.message = resp.text,
        !.timestamp = HeaderGet(resp.headers, "date", "unknown")]

\* the error_details of a response that is not ok
ErrorDetails(resp) ==
    [NoResult EXCEPT
        !.kind = "UpstreamError",
        !.requestId = HeaderGet(resp.headers, "x-request-id", "unknown"),
        !.code = ToString(resp.status),
        !.message = resp.text,
        !.timestamp = HeaderGet(resp.headers, "date", "unknown")]

\* the kinds of failure fetch_kra_token raises
TokenFailures == {"InvalidApp", "TokenRequestFailed", "TokenProcessingFailed"}

\* a slot that runs no call
Idle ==
    [pc |-> "idle", op |-> "-", app_name |-> "-", force_refresh |-> FALSE,
     max_retries |-> 0, token |-> None, headers |-> NoAuth, retries |-> 0,
     response |-> Unbound, result |-> NoResult,
     \* history of the call
     posts |-> 0, n401 |-> 0, n504 |-> 0, nTimeout |-> 0, tokenRequests |-> 0,
     refreshes |-> 0, tokResp |-> Unbound, sent |-> NoAuth, hit |-> None,
     only401 |-> TRUE]

NoEntry == [set |-> FALSE, token |-> None, expires |-> 0]

Inc(n) == IF n < CountCap THEN n + 1 ELSE n
Inc401(n) == IF n < Cap401 THEN n + 1 ELSE n

Init ==
    /\ now = 0
    /\ cache = [a \in AppNames |-> NoEntry]
    /\ call = [r \in Slots |-> Idle]
    /\ settings = DefaultSettings
    /\ handler = [r \in Slots |-> NoRequest]

----------------------------------------------------------------------------
(* fetch_kra_token *)

\* CacheGet never finding the entry
CacheGet_NeverHit(a) == None

\* cache.get(cache_key): the value set for the key, None once it has expired
CacheGet(a) ==
    IF cache[a].set /\ now < cache[a].expires THEN cache[a].token ELSE None

\* CacheSet keeping the entry that is already there (cache.add for cache.set)
CacheSet_KeepOld(a, t) ==
    IF cache[a].set /\ now < cache[a].expires
    THEN cache
    ELSE [cache EXCEPT ![a] = [set |-> TRUE, token |-> t, expires |-> now + TokenTimeout]]

\* CacheSet writing every app's token under one key
CacheSet_SharedKey(a, t) ==
    [b \in AppNames |-> [set |-> TRUE, token |-> t, expires |-> now + TokenTimeout]]

\* CacheSet putting the new token into the entry that is there, expiry kept
CacheSet_Merge(a, t) ==
    [cache EXCEPT ![a] =
        [set |-> TRUE, token |-> t,
         expires |-> IF cache[a].set THEN cache[a].expires ELSE now + TokenTimeout]]

\* cache.set(cache_key, access_token, timeout=3600)
CacheSet(a, t) ==
    [cache EXCEPT ![a] = [set |-> TRUE, token |-> t, expires |-> now + TokenTimeout]]

\* the program counter of a call that waits for the token endpoint's answer,
\* by the place fetch_kra_token was called from
WaitPc(ctx) ==
    CASE ctx = "top" -> "token_wait"
      [] ctx = "init" -> "init_wait"
      [] ctx = "refresh" -> "refresh_wait"
CtxOf(pc) ==
    CASE pc = "token_wait" -> "top"
      [] pc = "init_wait" -> "init"
      [] pc = "refresh_wait" -> "refresh"

\* Deliver leaving the Authorization header as it was after a refresh
Deliver_StaleHeader(c, ctx, t) ==
    CASE ctx = "top" ->
           [c EXCEPT !.pc = "done", !.result = TokenResult(t)]
      [] ctx = "init" ->
           [c EXCEPT !.pc = "loop", !.token = t, !.headers = Bearer(t),
                     !.retries = 0]
      [] ctx = "refresh" ->
           [c EXCEPT !.pc = "loop", !.token = t]

\* fetch_kra_token returns token t to the place it was called from: the
\* caller of a direct call, call_kra_endpoint's first lines (the headers are
\* built and the retry counter starts at 0), or the 401 branch of its loop
Deliver(c, ctx, t) ==
    CASE ctx = "top" ->
           [c EXCEPT !.pc = "done", !.result = TokenResult(t)]
      [] ctx = "init" ->
           [c EXCEPT !.pc = "loop", !.token = t, !.headers = Bearer(t),
                     !.retries = 0]
      [] ctx = "refresh" ->
           [c EXCEPT !.pc = "loop", !.token = t, !.headers = Bearer(t)]

\* an exception that nothing in utils.py catches ends the call
Raise(c, failure) == [c EXCEPT !.pc = "done", !.result = failure]

\* StartFetch asking the token endpoint even when a token is cached
StartFetch_IgnoresCache(c, ctx, force) ==
    IF c.app_name \notin KRA_APPS
    THEN Raise(c, Failure("InvalidApp", Str(c.app_name)))
    ELSE [c EXCEPT !.pc = WaitPc(ctx), !.tokenRequests = Inc(@)]

\* fetch_kra_token up to its request: the cached token unless force_refresh,
\* else the app's credentials, else the GET to the token endpoint is sent
StartFetch(c, ctx, force) ==
    IF ~force /\ Truthy(CacheGet(c.app_name))
    THEN Deliver(c, ctx, CacheGet(c.app_name))
    ELSE IF c.app_name \notin KRA_APPS
    THEN Raise(c, Failure("InvalidApp", Str(c.app_name)))
    ELSE [c EXCEPT !.pc = WaitPc(ctx), !.tokenRequests = Inc(@)]

\* fetch_kra_token from the token endpoint's answer on: the access token, or
\* the failure raised
ProcessTokenResponse(resp) ==
    IF resp.kind # "response"
    THEN [ok |-> FALSE, token |-> None,
          failure |-> Failure("TokenRequestFailed", Str("transport"))]
    ELSE IF ~Ok(resp)
    THEN [ok |-> FALSE, token |-> None,
          failure |-> Failure("TokenRequestFailed", resp.text)]
    ELSE LET token_data == JsonParse(resp.text)
             got == DictGet(token_data.val)
         IN  IF ~token_data.ok \/ ~got.ok
             THEN [ok |-> FALSE, token |-> None,
                   failure |-> Failure("TokenProcessingFailed", resp.text)]
             ELSE [ok |-> TRUE,
                   token |-> IF ~Truthy(got.val) THEN Strip(resp.text) ELSE got.val,
                   failure |-> NoResult]

\* the call fetch_kra_token(a, force) of a free slot, up to its request
BeginFetch(a, force) ==
    StartFetch([Idle EXCEPT !.op = "fetch_kra_token", !.app_name = a,
                            !.force_refresh = force, !.hit = CacheGet(a)],
               "top", force)

\* a caller calls fetch_kra_token(a, force); GetTokenView.post calls it with
\* force_refresh=True
FetchToken(r, a, force) ==
    /\ call[r].pc = "idle"
    /\ r \in ViewSlots => force /\ a \in AppChoices
    /\ call' = [call EXCEPT ![r] = BeginFetch(a, force)]
    /\ UNCHANGED <<now, cache, settings, handler>>

\* TokenResponse deleting the app's entry when the fetch fails
TokenResponse_DropsOnFailure(r, resp) ==
    /\ call[r].pc \in {"token_wait", "init_wait", "refresh_wait"}
    /\ resp \in TokenResponses(call[r].app_name)
    /\ LET c == [call[r] EXCEPT !.tokResp = resp]
           out == ProcessTokenResponse(resp)
       IN  IF out.ok
           THEN /\ cache' = CacheSet(c.app_name, out.token)
                /\ call' = [call EXCEPT ![r] = Deliver(c, CtxOf(c.pc), out.token)]
           ELSE /\ cache' = [cache EXCEPT ![c.app_name] = NoEntry]
                /\ call' = [call EXCEPT ![r] = Raise(c, out.failure)]
    /\ UNCHANGED <<now, settings, handler>>

\* the token endpoint answers the GET of slot r
TokenResponse(r, resp) ==
    /\ call[r].pc \in {"token_wait", "init_wait", "refresh_wait"}
    /\ resp \in TokenResponses(call[r].app_name)
    /\ LET c == [call[r] EXCEPT !.tokResp = resp]
           out == ProcessTokenResponse(resp)
       IN  IF out.ok
           THEN /\ cache' = CacheSet(c.app_name, out.token)
                /\ call' = [call EXCEPT ![r] = Deliver(c, CtxOf(c.pc), out.token)]
           ELSE /\ cache' = cache
                /\ call' = [call EXCEPT ![r] = Raise(c, out.failure)]
    /\ UNCHANGED <<now, settings, handler>>

----------------------------------------------------------------------------
(* call_kra_endpoint *)

\* what raising response.json()'s error at the return ends the call with:
\* requests' JSONDecodeError is a RequestException ("Request failed") in the
\* library versions that define it, a plain ValueError in the older ones
JsonErrorKinds == {"RequestFailed", "ValueError"}

\* Finish returning an empty body when the loop never ran
Finish_EmptyBodyWhenUnbound(c) ==
    IF c.response.kind = "unbound"
    THEN { [c EXCEPT !.pc = "done", !.result = JsonResult(NoDoc)] }
    ELSE IF ~Ok(c.response)
    THEN { Raise(c, ErrorDetails(c.response)) }
    ELSE LET body == JsonParse(c.response.text)
         IN  IF body.ok
             THEN { [c EXCEPT !.pc = "done", !.result = JsonResult(body.val)] }
             ELSE { Raise(c, Failure(k, c.response.text)) : k \in JsonErrorKinds }

\* after the loop: the response that is not ok is raised as error_details,
\* the one that is ok is returned as response.json(); a loop that never ran
\* left response unbound
Finish(c) ==
    IF c.response.kind = "unbound"
    THEN { Raise(c, Failure("UnboundLocalError", None)) }
    ELSE IF ~Ok(c.response)
    THEN { Raise(c, ErrorDetails(c.response)) }
    ELSE LET body == JsonParse(c.response.text)
         IN  IF body.ok
             THEN { [c EXCEPT !.pc = "done", !.result = JsonResult(body.val)] }
             ELSE { Raise(c, Failure(k, c.response.text)) : k \in JsonErrorKinds }

\* On401 counting the 401 as a retry
On401_CountsRetry(c) ==
    StartFetch([c EXCEPT !.n401 = Inc401(@), !.refreshes = Inc401(@),
                         !.retries = @ + 1], "refresh", TRUE)

\* the 401 branch: fetch_kra_token(app_name, force_refresh=True), the
\* Authorization header replaced, and the loop continued
On401(c) ==
    StartFetch([c EXCEPT !.n401 = Inc401(@), !.refreshes = Inc401(@)], "refresh", TRUE)

\* On504 giving up at the first 504
On504_NoRetry(c) ==
    Finish([c EXCEPT !.retries = @ + 1, !.n504 = Inc(@)])

\* On504 raising the error of the timeouts once the retries are used up
On504_MaxRetriesError(c) ==
    LET d == [c EXCEPT !.retries = @ + 1, !.n504 = Inc(@)]
    IN  IF d.retries < d.max_retries THEN {d}
        ELSE { Raise(d, Failure("MaxRetries", Str("timed out"))) }

\* On504 continuing the loop without counting the retry
On504_NoCount(c) == { [c EXCEPT !.n504 = Inc(@)] }

\* On504 starting the count of the retries again
On504_ResetsCount(c) == { [c EXCEPT !.retries = 0, !.n504 = Inc(@)] }

\* the 504 branch: one more retry counted, and the loop continued while the
\* counter is under max_retries
On504(c) ==
    LET d == [c EXCEPT !.retries = @ + 1, !.n504 = Inc(@)]
    IN  IF d.retries < d.max_retries THEN {d} ELSE Finish(d)

\* OnTimeout allowing one timeout more before it gives up
OnTimeout_OneMore(c) ==
    LET d == [c EXCEPT !.retries = @ + 1, !.nTimeout = Inc(@)]
    IN  IF d.retries > d.max_retries
        THEN Raise(d, Failure("MaxRetries", Str("timed out")))
        ELSE d

\* except requests.Timeout: one more retry counted, and the call ends once
\* the counter has reached max_retries
OnTimeout(c) ==
    LET d == [c EXCEPT !.retries = @ + 1, !.nTimeout = Inc(@)]
    IN  IF d.retries >= d.max_retries
        THEN Raise(d, Failure("MaxRetries", Str("timed out")))
        ELSE d

\* LoopPass handling every transport error of the POST as a timeout
LoopPass_RetriesTransportError(c, resp) ==
    LET p == [c EXCEPT !.posts = Inc(@), !.sent = c.headers,
                       !.only401 = @ /\ resp.kind = "response" /\ resp.status = 401]
    IN  CASE resp.kind \in {"timeout", "error"} -> { OnTimeout(p) }
          [] OTHER ->
               LET q == [p EXCEPT !.response = resp]
               IN  IF resp.status = 401 THEN { On401(q) }
                   ELSE IF resp.status = 504 THEN On504(q)
                   ELSE Finish(q)

\* one pass of the while loop with the POST answered by resp: the slots the
\* call can be left in
LoopPass(c, resp) ==
    LET p == [c EXCEPT !.posts = Inc(@), !.sent = c.headers,
                       !.only401 = @ /\ resp.kind = "response" /\ resp.status = 401]
    IN  CASE resp.kind = "timeout" -> { OnTimeout(p) }
          [] resp.kind = "error" ->
               { Raise(p, Failure("RequestFailed", Str("transport"))) }
          [] OTHER ->
               LET q == [p EXCEPT !.response = resp]
               IN  IF resp.status = 401 THEN { On401(q) }
                   ELSE IF resp.status = 504 THEN On504(q)
                   ELSE Finish(q)

\* the call call_kra_endpoint(url, payload, a, max_retries=m) of a free
\* slot, up to the request of its first token fetch
BeginForward(a, m) ==
    StartFetch([Idle EXCEPT !.op = "call_kra_endpoint", !.app_name = a,
                            !.max_retries = m, !.hit = CacheGet(a)],
               "init", FALSE)

\* a caller calls call_kra_endpoint(url, payload, a, max_retries=m): the
\* token is fetched first, without force_refresh
CallEndpoint(r, a, m) ==
    /\ r \in ForwardSlots
    /\ call[r].pc = "idle"
    /\ call' = [call EXCEPT ![r] = BeginForward(a, m)]
    /\ UNCHANGED <<now, cache, settings, handler>>

\* while retries < max_retries: the POST is sent and answered
Post(r, resp) ==
    /\ call[r].pc = "loop"
    /\ call[r].retries < call[r].max_retries
    /\ \E c \in LoopPass(call[r], resp) : call' = [call EXCEPT ![r] = c]
    /\ UNCHANGED <<now, cache, settings, handler>>

\* the while condition fails
LoopExit(r) ==
    /\ call[r].pc = "loop"
    /\ ~(call[r].retries < call[r].max_retries)
    /\ \E c \in Finish(call[r]) : call' = [call EXCEPT ![r] = c]
    /\ UNCHANGED <<now, cache, settings, handler>>

----------------------------------------------------------------------------
(* The environment of the calls *)

\* the caller has the result of the call; the slot is free for the next
Return(r) ==
    /\ call[r].pc = "done"
    /\ call' = [call EXCEPT ![r] = Idle]
    /\ UNCHANGED <<now, cache, settings, handler>>

\* time passes; the cache drops the entries that have expired
Tick ==
    /\ now < MaxTicks * TickStep
    /\ now' = now + TickStep
    /\ cache' = [a \in AppNames |->
                   IF cache[a].set /\ now' < cache[a].expires THEN cache[a] ELSE NoEntry]
    /\ UNCHANGED <<call, settings, handler>>

\* a call that has ended returns to its caller before anything else happens:
\* the return changes nothing another call or the clock reads
NoneDone == \A r \in Slots : call[r].pc # "done"

Next ==
    \/ \E r \in Slots : Return(r)
    \/ NoneDone /\ \E r \in Slots, a \in AppNames, force \in BOOLEAN :
         FetchToken(r, a, force)
    \/ NoneDone /\ \E r \in Slots : \E resp \in TokenResponses(call[r].app_name) :
         TokenResponse(r, resp)
    \/ NoneDone /\ \E r \in Slots, a \in AppNames, m \in (-1)..MaxRetriesBound :
         CallEndpoint(r, a, m)
    \/ NoneDone /\ \E r \in Slots, resp \in UpstreamResponses : Post(r, resp)
    \/ NoneDone /\ \E r \in Slots : LoopExit(r)
    \/ NoneDone /\ Tick

Spec == Init /\ [][Next]_vars

\* the next step of the call of slot r: the answer of the token endpoint or
\* of the upstream to the request the call waits for, or the loop's exit
CallStep(r) ==
    \/ \E resp \in TokenResponses(call[r].app_name) : TokenResponse(r, resp)
    \/ \E resp \in UpstreamResponses : Post(r, resp)
    \/ LoopExit(r)

\* one caller at a time: the calls of the slots that run call_kra_endpoint,
\* with no other slot stepping
SoloNext ==
    \/ \E r \in ForwardSlots : Return(r)
    \/ NoneDone /\ \E r \in ForwardSlots, a \in AppNames, force \in BOOLEAN :
         FetchToken(r, a, force)
    \/ NoneDone /\ \E r \in ForwardSlots :
         \E resp \in TokenResponses(call[r].app_name) : TokenResponse(r, resp)
    \/ NoneDone /\ \E r \in ForwardSlots, a \in AppNames, m \in (-1)..MaxRetriesBound :
         CallEndpoint(r, a, m)
    \/ NoneDone /\ \E r \in ForwardSlots, resp \in UpstreamResponses : Post(r, resp)
    \/ NoneDone /\ \E r \in ForwardSlots : LoopExit(r)
    \/ NoneDone /\ Tick

\* requests.get and requests.post block until answered or timed out (both
\* are given a timeout) and the lines between them always run on: every
\* request of a call is answered in the end, and every call that has ended
\* returns
FairSpec ==
    /\ Init /\ [][SoloNext]_vars
    /\ \A r \in ForwardSlots : WF_vars(Return(r))
    /\ \A r \in ForwardSlots : WF_vars(NoneDone /\ CallStep(r))

----------------------------------------------------------------------------
(* views.py: the three POST handlers *)

\* call_kra_endpoint's default max_retries, which the lookup views call it with
DefaultMaxRetries == 5

Views == {"GetTokenView", "PinByIDView", "PinByPinView"}
LookupViews == {"PinByIDView", "PinByPinView"}

\* the settings the deployments of the model run with: everything
\* configured; app2 without credentials and KRA_PIN_BY_ID_URL not defined;
\* KRA_PIN_BY_PIN_URL defined as the empty string
SettingsChoices ==
    { DefaultSettings,
      [DefaultSettings EXCEPT !.KRA_APPS = {"app1"}, !.KRA_PIN_BY_ID_URL = Unset],
      [DefaultSettings EXCEPT !.KRA_PIN_BY_PIN_URL = ""] }

\* request bodies: the app field ("absent" when the body has none) and
\* whether the other fields the view's serializer requires are well-formed
RequestData == [app : AppNames \cup {"absent"}, fields_ok : BOOLEAN]

\* serializer.is_valid(): app is a ChoiceField over app1 and app2 that may be
\* left out; TokenRequestSerializer has no other field
IsValid(view, data) ==
    /\ data.app \in AppChoices \cup {"absent"}
    /\ view \in LookupViews => data.fields_ok

\* serializer.validated_data's app: the field's default is "app1"
ValidatedApp(data) == IF data.app = "absent" THEN "app1" ELSE data.app

\* the name of the setting that holds the view's target URL
UrlSetting(view) ==
    IF view = "PinByIDView" THEN "KRA_PIN_BY_ID_URL" ELSE "KRA_PIN_BY_PIN_URL"

\* NotConfigured taking every setting for a URL
NotConfigured_Never(url) == FALSE

\* `not url` of url = getattr(settings, name, None)
NotConfigured(url) == url \in {Unset, ""}

\* how far the handler gets before it answers or calls utils.py
Stage(view, data) ==
    IF ~IsValid(view, data) THEN "invalid"
    ELSE IF view \in LookupViews /\ NotConfigured(settings[UrlSetting(view)])
    THEN "unconfigured"
    ELSE "called"

\* Response(body, status=status)
Http(status, body) == [status |-> status, body |-> body]
\* no response yet
Pending == Http(0, [pending |-> TRUE])
\* an exception left the handler
Escaped(e) == Http(0, [escaped |-> e])

\* the exception classes of the failures of utils.py
ExceptionClass(kind) ==
    IF kind \in {"UnboundLocalError", "ValueError"} THEN kind ELSE "Exception"
\* the classes `except Exception` catches
ExceptionSubclasses == {"Exception", "UnboundLocalError", "ValueError"}

\* the text the exception is raised with
ExceptionText(kind) ==
    CASE kind = "InvalidApp" -> "Invalid app selection"
      [] kind = "TokenRequestFailed" -> "Token request failed"
      [] kind = "TokenProcessingFailed" -> "Failed to get access token"
      [] kind = "MaxRetries" -> "Maximum retries reached, request timed out"
      [] kind = "RequestFailed" -> "Request failed"
      [] kind = "UpstreamError" -> "error_details"
      [] kind = "UnboundLocalError" -> "local variable 'response' referenced before assignment"
      [] OTHER -> "Expecting value"

\* str(e)
StrOf(e) ==
    [text |-> ExceptionText(e.kind),
     detail |-> IF e.kind = "UpstreamError"
                THEN [requestId |-> e.requestId, code |-> e.code,
                      message |-> e.message, timestamp |-> e.timestamp]
                ELSE [message |-> e.message]]

\* Respond answering an upstream error with the upstream's status
Respond_UpstreamStatus(result) ==
    CASE result.kind = "token" -> Http(200, [access_token |-> result.token])
      [] result.kind = "json" -> Http(200, result.json)
      [] result.kind = "UpstreamError" ->
           Http(IF result.code = "504" THEN 504 ELSE 500, [error |-> StrOf(result)])
      [] OTHER -> Http(500, [error |-> StrOf(result)])

\* the try block of a handler around the call of utils.py: the value returned
\* is answered with 200, `except Exception as e` answers 500 with str(e)
Respond(result) ==
    CASE result.kind = "token" -> Http(200, [access_token |-> result.token])
      [] result.kind = "json" -> Http(200, result.json)
      [] ExceptionClass(result.kind) \in ExceptionSubclasses ->
           Http(500, [error |-> StrOf(result)])
      [] OTHER -> Escaped(result)

\* the response of the handler of slot r, once it has one
ViewResponse(r) ==
    CASE handler[r].stage = "invalid" -> Http(400, [error |-> "serializer.errors"])
      [] handler[r].stage = "unconfigured" ->
           Http(500, [error |-> UrlSetting(handler[r].view) \o " not configured"])
      [] handler[r].stage = "called" /\ call[r].pc = "done" -> Respond(call[r].result)
      [] OTHER -> Pending

\* POST to a view with request body data: the body is validated, a lookup
\* view reads its URL setting, and utils.py is called.  One worker handles
\* the requests, one at a time
ViewPost(r, view, data) ==
    /\ call[r].pc = "idle" /\ handler[r].stage = "none"
    /\ r \in ForwardSlots
    /\ LET stage == Stage(view, data)
           app == ValidatedApp(data)
       IN  /\ handler' = [handler EXCEPT ![r] = [view |-> view, stage |-> stage]]
           /\ call' = [call EXCEPT ![r] =
                         IF stage # "called" THEN Idle
                         ELSE IF view = "GetTokenView" THEN BeginFetch(app, TRUE)
                         ELSE BeginForward(app, DefaultMaxRetries)]
    /\ UNCHANGED <<now, cache, settings>>

\* the handler returns its response; the slot is free for the next request
ViewReturn(r) ==
    /\ ViewResponse(r) # Pending
    /\ handler' = [handler EXCEPT ![r] = NoRequest]
    /\ call' = [call EXCEPT ![r] = Idle]
    /\ UNCHANGED <<now, cache, settings>>

\* a handler that has its response returns it before anything else happens
NoneReady == \A r \in Slots : ViewResponse(r) = Pending

ViewInit ==
    /\ now = 0
    /\ cache = [a \in AppNames |-> NoEntry]
    /\ call = [r \in Slots |-> Idle]
    /\ settings \in SettingsChoices
    /\ handler = [r \in Slots |-> NoRequest]

\* with max_retries = 5 the loop is left by its break or by an exception,
\* never by its condition: LoopExit has no step here
ViewNext ==
    \/ \E r \in Slots : ViewReturn(r)
    \/ NoneReady /\ \E r \in Slots, view \in Views, data \in RequestData :
         ViewPost(r, view, data)
    \/ NoneReady /\ \E r \in Slots : \E resp \in TokenResponses(call[r].app_name) :
         TokenResponse(r, resp)
    \/ NoneReady /\ \E r \in Slots, resp \in UpstreamResponses : Post(r, resp)
    \/ NoneReady /\ Tick

\* the service as deployed: every call of utils.py is made by a view
ViewSpec == ViewInit /\ [][ViewNext]_vars

----------------------------------------------------------------------------
(* Properties *)

\* the cache entry of app a has not expired
Fresh(a) == cache[a].set /\ now < cache[a].expires

\* slot r runs a call of the operation, or has just ended it
Fetching(r) == call[r].op = "fetch_kra_token"
Forwarding(r) == call[r].op = "call_kra_endpoint"
Ended(r) == call[r].pc = "done"

\* slot r begins a call in this step
Begins(r) == call[r].pc = "idle" /\ call'[r].pc # "idle"

\* the token the last answer of the token endpoint gave the call of slot r
Obtained(r) == ProcessTokenResponse(call[r].tokResp).token

\* the POST of slot r that was answered last was answered with an ok status
\* and a JSON body
GotJson(r) ==
    /\ call[r].response.kind = "response"
    /\ Ok(call[r].response)
    /\ JsonParse(call[r].response.text).ok

\* C1: a fetch_kra_token call without force_refresh that begins while a
\* non-expired entry is cached for its configured app ends at once with the
\* cached token and sends no request to the token endpoint; and a call that
\* had to ask the token endpoint leaves the token it returns in the cache for
\* the whole timeout, so the next such call within the timeout returns the
\* same token without a second request.
C1_CachedTokenNoRequest ==
    [][\A r \in Slots :
         /\ ( /\ Begins(r)
              /\ call'[r].op = "fetch_kra_token"
              /\ ~call'[r].force_refresh
              /\ call'[r].app_name \in KRA_APPS
              /\ Fresh(call'[r].app_name) )
            => /\ call'[r].pc = "done"
               /\ call'[r].result = TokenResult(cache[call'[r].app_name].token)
               /\ call'[r].tokenRequests = 0
               /\ cache' = cache
         /\ ( /\ call[r].pc = "token_wait"
              /\ call'[r].pc = "done"
              /\ call'[r].result.kind = "token" )
            => /\ call'[r].tokenRequests = 1
               /\ cache'[call[r].app_name] =
                    [set |-> TRUE, token |-> call'[r].result.token,
                     expires |-> now + TokenTimeout]
      ]_vars

\* a call without force_refresh has returned the token it found cached
C1_Witness ==
    \E r \in Slots :
        /\ Ended(r) /\ Fetching(r) /\ ~call[r].force_refresh
        /\ call[r].hit # None
        /\ call[r].result = TokenResult(call[r].hit)
        /\ call[r].tokenRequests = 0

\* C2: a fetch_kra_token call with force_refresh for a configured app sends
\* exactly one request to the token endpoint, whatever the cache holds; when
\* it returns a token, that token is the cache entry of the app, and a call
\* without force_refresh made then returns it.
C2_ForcedRefreshOverwrites ==
    \A r \in Slots :
        ( /\ Fetching(r) /\ call[r].force_refresh
          /\ call[r].app_name \in KRA_APPS )
        => /\ call[r].tokenRequests = 1
           /\ Ended(r) /\ call[r].result.kind = "token"
              => /\ call[r].result.token = Obtained(r)
                 /\ cache[call[r].app_name] =
                      [set |-> TRUE, token |-> call[r].result.token,
                       expires |-> now + TokenTimeout]
                 /\ StartFetch([Idle EXCEPT !.app_name = call[r].app_name],
                               "top", FALSE).result
                      = TokenResult(call[r].result.token)

\* a forced call has replaced a non-expired entry by another token
C2_Witness ==
    \E r \in Slots :
        /\ Ended(r) /\ Fetching(r) /\ call[r].force_refresh
        /\ call[r].hit # None
        /\ call[r].result.kind = "token"
        /\ call[r].result.token # call[r].hit
        /\ cache[call[r].app_name].token = call[r].result.token

\* C3: a call_kra_endpoint call whose first POST is answered 401 and whose
\* second POST is answered 200 with a JSON body has refreshed the token once,
\* has sent the second POST with the token the refresh obtained, has not
\* counted a retry, has sent two POSTs and returns the body.
C3_Single401ThenSuccess ==
    \A r \in Slots :
        ( /\ Ended(r) /\ Forwarding(r)
          /\ call[r].posts = 2 /\ call[r].n401 = 1
          /\ call[r].response.status = 200 /\ GotJson(r) )
        => /\ call[r].refreshes = 1
           /\ call[r].tokenRequests = (IF call[r].hit = None THEN 2 ELSE 1)
           /\ call[r].sent = Bearer(Obtained(r))
           /\ call[r].retries = 0
           /\ call[r].result = JsonResult(JsonParse(call[r].response.text).val)

\* such a call, where the refresh obtained another token than the stale one
C3_Witness ==
    \E r \in Slots :
        /\ Ended(r) /\ Forwarding(r)
        /\ call[r].posts = 2 /\ call[r].n401 = 1
        /\ call[r].response.status = 200 /\ GotJson(r)
        /\ call[r].hit # None
        /\ call[r].sent # Bearer(call[r].hit)
        /\ call[r].result.kind = "json"

\* every POST of the call of slot r so far has timed out / was answered 504
AllTimedOut(r) ==
    Forwarding(r) /\ call[r].posts >= 1 /\ call[r].nTimeout = call[r].posts
All504(r) ==
    Forwarding(r) /\ call[r].posts >= 1 /\ call[r].n504 = call[r].posts

\* C4 as claimed: when every POST times out the call re-issues the POST
\* max_retries times after the first one (max_retries + 1 POSTs) and then
\* fails with the "maximum retries reached" error.
C4_AsClaimed ==
    \A r \in Slots :
        (Ended(r) /\ AllTimedOut(r))
        => /\ call[r].result.kind = "MaxRetries"
           /\ call[r].posts = call[r].max_retries + 1

\* C4, amended: when every POST times out the call sends exactly max_retries
\* POSTs in all (the first and max_retries - 1 re-issued ones), not fewer and
\* not more, and then fails with the "maximum retries reached" error.
C4_TimeoutsExhaustBudget ==
    \A r \in Slots :
        AllTimedOut(r)
        => /\ call[r].posts <= call[r].max_retries
           /\ Ended(r) <=> call[r].posts = call[r].max_retries
           /\ Ended(r) => /\ call[r].result.kind = "MaxRetries"
                          /\ call[r].retries = call[r].max_retries

\* two POSTs, both timed out, with max_retries = 2
C4_Witness ==
    \E r \in Slots :
        /\ Ended(r) /\ AllTimedOut(r)
        /\ call[r].max_retries = 2 /\ call[r].posts = 2
        /\ call[r].result.kind = "MaxRetries"

\* C5: a call whose first k POSTs are answered 504, k < max_retries, sends
\* another POST, and when that one is answered 200 with a JSON body the call
\* has sent k + 1 POSTs and returns the body.
C5_Retries504ThenSuccess ==
    \A r \in Slots :
        /\ (All504(r) /\ call[r].posts < call[r].max_retries)
           => call[r].pc = "loop"
        /\ ( /\ Ended(r) /\ Forwarding(r)
             /\ call[r].n401 = 0 /\ call[r].nTimeout = 0
             /\ call[r].response.status = 200 /\ GotJson(r) )
           => /\ call[r].posts = call[r].n504 + 1
              /\ call[r].n504 < call[r].max_retries
              /\ call[r].retries = call[r].n504
              /\ call[r].result = JsonResult(call[r].response.text.doc)

\* one 504, then 200
C5_Witness ==
    \E r \in Slots :
        /\ Ended(r) /\ Forwarding(r)
        /\ call[r].n401 = 0 /\ call[r].nTimeout = 0
        /\ call[r].n504 = 1 /\ call[r].posts = 2
        /\ call[r].result.kind = "json"

\* the POST of slot r that was answered last was answered with an error
\* status other than 401 and 504
OtherError(r) ==
    /\ call[r].response.kind = "response"
    /\ ~Ok(call[r].response)
    /\ call[r].response.status \notin {401, 504}

\* C6: a POST answered with an error status other than 401 and 504 ends the
\* call at once with the UpstreamError that carries that status as its code:
\* the answer counts no retry and causes no request to the token endpoint.
C6_OtherErrorEndsCall ==
    \A r \in Slots :
        (Forwarding(r) /\ OtherError(r))
        => /\ Ended(r)
           /\ call[r].result.kind = "UpstreamError"
           /\ call[r].result.code = ToString(call[r].response.status)
           /\ call[r].result.message = call[r].response.text
           /\ call[r].retries = call[r].n504 + call[r].nTimeout
           /\ call[r].n401 < Cap401
              => call[r].tokenRequests =
                   call[r].n401 + (IF call[r].hit = None THEN 1 ELSE 0)

\* the first POST answered 403
C6_Witness ==
    \E r \in Slots :
        /\ Ended(r) /\ Forwarding(r) /\ OtherError(r)
        /\ call[r].response.status = 403
        /\ call[r].posts = 1 /\ call[r].retries = 0
        /\ call[r].result.code = "403"

\* the body has an access_token member
HasAccessToken(t) == t.doc.k = "obj" /\ t.doc.at # "absent"

\* C7 as claimed: when the token endpoint answers with an ok status and a
\* non-empty body without an access_token member, a bare token string
\* included, fetch_kra_token returns the trimmed body as the token and
\* caches it.
C7_AsClaimed ==
    \A r \in Slots :
        ( /\ Ended(r) /\ Fetching(r)
          /\ call[r].tokResp.kind = "response" /\ Ok(call[r].tokResp)
          /\ Strip(call[r].tokResp.text) # EmptyText
          /\ ~HasAccessToken(call[r].tokResp.text) )
        => /\ call[r].result = TokenResult(Strip(call[r].tokResp.text))
           /\ cache[call[r].app_name].token = Strip(call[r].tokResp.text)

\* C8: a call_kra_endpoint call that begins while a non-expired token is
\* cached for its app sends no request to the token endpoint before its
\* first POST and sends that POST with Bearer and the cached token; a call
\* whose last POST is answered with an ok status and a JSON body returns the
\* document of the body.
C8_CachedTokenPassThrough ==
    \A r \in Slots :
        /\ (Forwarding(r) /\ call[r].hit # None)
           => /\ call[r].pc # "init_wait"
              /\ call[r].n401 = 0 => call[r].tokenRequests = 0
              /\ call[r].posts = 1 =>
                   call[r].sent = [scheme |-> "Bearer", cred |-> call[r].hit]
        /\ (Forwarding(r) /\ Ended(r) /\ GotJson(r))
           => call[r].result = JsonResult(call[r].response.text.doc)

\* the cached token sent with the only POST, and the body returned
C8_Witness ==
    \E r \in Slots :
        /\ Ended(r) /\ Forwarding(r)
        /\ call[r].hit # None
        /\ call[r].posts = 1 /\ call[r].tokenRequests = 0
        /\ call[r].sent.cred = call[r].hit
        /\ call[r].result.kind = "json"
        /\ call[r].result.json = call[r].response.text.doc

\* C9: the step that answers a POST with 401 leaves the retry counter as it
\* is; so a call with max_retries >= 1 whose POSTs are all answered 401 is
\* still in its loop with the counter under max_retries, and ends only when
\* a fetch of the token fails.
C9_Recycles401Unbounded ==
    /\ [][\A r \in Slots :
            (call[r].pc = "loop" /\ call'[r].pc = "refresh_wait")
            => call'[r].retries = call[r].retries]_vars
    /\ [](\A r \in Slots :
            (Forwarding(r) /\ call[r].max_retries >= 1 /\ call[r].only401)
            => /\ Ended(r) => call[r].result.kind \in TokenFailures
               /\ call[r].pc = "loop" => call[r].retries < call[r].max_retries)

\* with max_retries = 1, the loop entered again after Cap401 POSTs answered 401
C9_Witness ==
    \E r \in Slots :
        /\ Forwarding(r) /\ call[r].pc = "loop"
        /\ call[r].max_retries = 1
        /\ call[r].only401 /\ call[r].n401 = Cap401
        /\ call[r].posts > call[r].max_retries

\* C10: a call whose POSTs are all answered 504 sends max_retries POSTs and
\* then fails with the error_details of the last 504 (requestId, code 504,
\* message, timestamp), not with the "maximum retries reached" error.
C10_Exhausted504IsUpstreamError ==
    \A r \in Slots :
        All504(r)
        => /\ call[r].posts <= call[r].max_retries
           /\ Ended(r) <=> call[r].posts = call[r].max_retries
           /\ Ended(r)
              => /\ call[r].response.status = 504
                 /\ call[r].result =
                      [kind |-> "UpstreamError", token |-> None, json |-> NoDoc,
                       code |-> "504", message |-> call[r].response.text,
                       requestId |->
                         HeaderGet(call[r].response.headers, "x-request-id", "unknown"),
                       timestamp |->
                         HeaderGet(call[r].response.headers, "date", "unknown")]

\* two POSTs, both answered 504, with max_retries = 2
C10_Witness ==
    \E r \in Slots :
        /\ Ended(r) /\ All504(r)
        /\ call[r].max_retries = 2 /\ call[r].posts = 2
        /\ call[r].result.kind = "UpstreamError"
        /\ call[r].result.requestId = "unknown"

\* the tokens the token endpoint of app a, asked with a's credentials, gives
AppTokens(a) ==
    { ProcessTokenResponse(resp).token :
        resp \in { x \in TokenResponses(a) : ProcessTokenResponse(x).ok } }

\* the app the call that slot r steps in is for
ActingApp(r) == IF call[r].pc = "idle" THEN call'[r].app_name ELSE call[r].app_name

\* C11: the cache holds at most one entry per app name, and only for
\* configured apps; the entry of an app is always a token that app's own
\* token endpoint gave; and a step of a fetch_kra_token or call_kra_endpoint
\* call for one app never creates, changes or removes the entry of another
\* app.
C11_EntriesPerApp ==
    /\ [](/\ DOMAIN cache = AppNames
          /\ \A a \in AppNames :
                cache[a].set => a \in KRA_APPS /\ cache[a].token \in AppTokens(a))
    /\ [][\A r \in Slots :
            call'[r] # call[r]
            => \A b \in AppNames \ {ActingApp(r)} : cache'[b] = cache[b]]_vars

\* a call for app1 has just cached the token it fetched while the entry of
\* app2 is cached
C11_Witness ==
    \E r \in Slots :
        /\ Ended(r) /\ call[r].app_name = "app1"
        /\ call[r].tokenRequests > 0 /\ call[r].result.kind = "token"
        /\ cache["app1"].set /\ cache["app1"].token = call[r].result.token
        /\ cache["app2"].set /\ cache["app2"].token # cache["app1"].token

\* the handler of slot r called utils.py and the call has ended
Answered(r) == handler[r].stage = "called" /\ Ended(r)

C13_UnconfiguredUrl ==
    /\ [][\A r \in Slots :
            ( /\ handler[r].stage = "none"
              /\ handler'[r].stage \notin {"none", "invalid"}
              /\ handler'[r].view \in LookupViews
              /\ settings[UrlSetting(handler'[r].view)] \in {Unset, ""} )
            => /\ handler'[r].stage = "unconfigured"
               /\ call'[r] = Idle
               /\ cache' = cache]_vars
    /\ [](\A r \in Slots :
            handler[r].stage = "unconfigured"
            => /\ call[r] = Idle
               /\ ViewResponse(r) =
                    Http(500, [error |-> UrlSetting(handler[r].view) \o " not configured"]))

\* PinByPinView has answered a request while KRA_PIN_BY_PIN_URL is empty and
\* a token is cached
C13_Witness ==
    \E r \in Slots :
        /\ handler[r] = [view |-> "PinByPinView", stage |-> "unconfigured"]
        /\ settings.KRA_PIN_BY_PIN_URL = ""
        /\ ViewResponse(r).body.error = "KRA_PIN_BY_PIN_URL not configured"
        /\ cache["app1"].set

\* the token endpoint's answer gives the call of slot r a token in this step
Writes(r) ==
    /\ call[r].pc \in {"token_wait", "init_wait", "refresh_wait"}
    /\ call'[r].pc # call[r].pc
    /\ call'[r].result.kind \notin TokenFailures

\* the token a call that begins in this step has once the step is taken
TokenAtStart(r) ==
    IF call'[r].op = "fetch_kra_token" THEN call'[r].result.token ELSE call'[r].token

\* C14: with calls for the same app running side by side, the cache entry of
\* an app is always the whole entry of the call that wrote last: a write
\* replaces the entry by the writer's own token with a full timeout,
\* whatever another call wrote before; nothing but a write or the expiry
\* changes an entry; and a call without force_refresh that begins while the
\* entry has not expired gets the token of that entry.
C14_LastWriterWins ==
    [][/\ \A r \in Slots :
            Writes(r)
            => cache'[call[r].app_name] =
                 [set |-> TRUE,
                  token |-> ProcessTokenResponse(call'[r].tokResp).token,
                  expires |-> now + TokenTimeout]
       /\ \A a \in AppNames :
            cache'[a] # cache[a]
            => \/ \E r \in Slots : Writes(r) /\ call[r].app_name = a
               \/ now' > now /\ cache'[a] = NoEntry /\ now' >= cache[a].expires
       /\ \A r \in Slots :
            Begins(r) /\ ~call'[r].force_refresh /\ Fresh(call'[r].app_name)
            => /\ TokenAtStart(r) = cache[call'[r].app_name].token
               /\ call'[r].tokenRequests = 0]_vars

\* two refreshes for app1 overlapped: the call of r1 wrote the token of its
\* refresh after the forced fetch of r2 had begun, and r2, which wrote last,
\* has left its own, different token in the cache
C14_Witness ==
    /\ now = 0
    /\ Forwarding("r1") /\ call["r1"].pc = "loop" /\ call["r1"].refreshes > 0
    /\ call["r1"].app_name = "app1" /\ call["r2"].app_name = "app1"
    /\ Ended("r2") /\ call["r2"].force_refresh /\ call["r2"].result.kind = "token"
    /\ call["r2"].hit # call["r1"].token
    /\ call["r2"].result.token # call["r1"].token
    /\ cache["app1"].token = call["r2"].result.token

\* the history counters of the call of slot r have not saturated
Counted(r) ==
    /\ call[r].posts < CountCap /\ call[r].n401 < Cap401
    /\ call[r].n504 < CountCap /\ call[r].nTimeout < CountCap

\* the number of passes a loop with budget m can count: none when m < 0
Budget(m) == IF m < 0 THEN 0 ELSE m

\* C15 as claimed: the POSTs of a call_kra_endpoint call never number more
\* than max_retries plus the 401 answers of the call.
C15_AsClaimed ==
    \A r \in Slots :
        Forwarding(r) /\ Counted(r)
        => call[r].posts <= call[r].max_retries + call[r].n401

\* C15: the POSTs of a call_kra_endpoint call never number more than
\* max_retries, taken as 0 when it is negative, plus the 401 answers of the
\* call: every POST is answered 401, or is counted in retries (504, timeout),
\* or is the one that ends the loop, and the counted ones together with the
\* ending one number at most max_retries.
C15_PostsBounded ==
    \A r \in Slots :
        Forwarding(r) /\ Counted(r)
        => /\ call[r].posts <= Budget(call[r].max_retries) + call[r].n401
           /\ call[r].retries = call[r].n504 + call[r].nTimeout
           /\ call[r].retries <= Budget(call[r].max_retries)
           /\ call[r].posts - call[r].n401 - call[r].retries \in {0, 1}
           /\ call[r].posts - call[r].n401 - call[r].retries = 1 => Ended(r)

\* the bound is met: with max_retries = 1, a POST answered 401 and a second
\* POST that ended the call
C15_Witness ==
    \E r \in Slots :
        /\ Forwarding(r) /\ Ended(r) /\ Counted(r)
        /\ call[r].max_retries = 1 /\ call[r].n401 = 1 /\ call[r].posts = 2

\* C16 as claimed: within one call_kra_endpoint call the token is
\* force-refreshed at most once and the POST is sent again at most once on
\* account of 401 answers.
C16_AsClaimed ==
    \A r \in Slots :
        Forwarding(r) => call[r].refreshes <= 1 /\ call[r].n401 <= 1

\* a fetch_kra_token of slot r fails in this step
FailsFetch(r) ==
    /\ call[r].pc # "done" /\ call'[r].pc = "done"
    /\ call'[r].result.kind \in TokenFailures

\* a fetch_kra_token of slot r sends its request to the token endpoint in
\* this step
SendsTokenRequest(r) ==
    /\ call[r].pc \in {"idle", "loop"}
    /\ call'[r].pc \in {"token_wait", "init_wait", "refresh_wait"}

\* C17: a fetch_kra_token that fails (app not in KRA_APPS, status that is not
\* ok, body without a usable token, transport error) writes nothing to the
\* cache and removes nothing from it, neither when it sends its request nor
\* when it fails: the token cached before, also the one whose 401 made
\* call_kra_endpoint refresh, stays cached.  For an app that is not in
\* KRA_APPS no request is sent at all.
C17_FailedFetchKeepsCache ==
    [][\A r \in Slots :
          /\ FailsFetch(r) \/ SendsTokenRequest(r) => cache' = cache
          /\ FailsFetch(r) /\ call'[r].result.kind = "InvalidApp"
             => /\ call[r].pc = "idle"
                /\ call'[r].tokenRequests = 0 /\ call'[r].posts = 0
                /\ call'[r].tokResp = Unbound]_vars

\* the refresh a 401 triggered has failed, and the token that was sent with
\* that POST is still the one cached
C17_Witness ==
    \E r \in Slots :
        /\ Forwarding(r) /\ Ended(r) /\ call[r].refreshes = 1
        /\ call[r].result.kind \in {"TokenRequestFailed", "TokenProcessingFailed"}
        /\ Fresh(call[r].app_name)
        /\ cache[call[r].app_name].token = call[r].sent.cred

\* the failure a transport error of the POST that is no timeout ends the call
\* with
RequestFailed == Failure("RequestFailed", Str("transport"))

\* C18: a POST that fails with a transport error other than a timeout ends
\* the call_kra_endpoint call at once with the "Request failed" error: the
\* POST is not sent again, retries is not incremented, no token is fetched,
\* and the cache is left as it was.
C18_TransportErrorEndsCall ==
    /\ [](\A r \in Slots :
            call[r].pc = "loop" /\ call[r].retries < call[r].max_retries
            => \A d \in LoopPass(call[r], ConnectionExc) :
                 /\ d.pc = "done" /\ d.result = RequestFailed
                 /\ d.posts = Inc(call[r].posts)
                 /\ d.retries = call[r].retries
                 /\ d.tokenRequests = call[r].tokenRequests
                 /\ d.refreshes = call[r].refreshes
                 /\ d.token = call[r].token)
    /\ [][\A r \in Slots :
            call[r].pc = "loop" /\ call'[r].result = RequestFailed
            => cache' = cache /\ call'[r].pc = "done"]_vars

\* a 504 was retried, then the second POST failed with a transport error and
\* ended the call; the token is still cached
C18_Witness ==
    \E r \in Slots :
        /\ Forwarding(r) /\ Ended(r) /\ call[r].result = RequestFailed
        /\ call[r].max_retries = 2 /\ call[r].retries = 1 /\ call[r].posts = 2
        /\ call[r].tokenRequests = 1
        /\ Fresh(call[r].app_name)

\* C20: a call_kra_endpoint call with max_retries <= 0 fetches its token
\* first as every call does, sends no POST and makes no refresh, and ends
\* with a failure, never with a body: the failure of the token fetch if that
\* failed, else, the token obtained and the headers built, the
\* UnboundLocalError of the response that no pass of the loop assigned.
C20_NoBudgetNoPost ==
    \A r \in Slots :
        Forwarding(r) /\ call[r].max_retries <= 0
        => /\ call[r].posts = 0 /\ call[r].refreshes = 0
           /\ call[r].response = Unbound
           /\ call[r].pc \in {"init_wait", "loop", "done"}
           /\ call[r].pc = "loop" => Truthy(call[r].token)
           /\ Ended(r)
              => /\ call[r].result.kind \in TokenFailures \cup {"UnboundLocalError"}
                 /\ call[r].result.json = NoDoc
                 /\ call[r].result.kind = "UnboundLocalError"
                    <=> Truthy(call[r].token)
                 /\ Truthy(call[r].token)
                    => /\ call[r].headers = Bearer(call[r].token)
                       /\ call[r].tokenRequests = 1 \/ call[r].hit = call[r].token

\* a call with max_retries = -1 has asked the token endpoint, got its token
\* and failed without a POST
C20_Witness ==
    \E r \in Slots :
        /\ Forwarding(r) /\ Ended(r) /\ call[r].max_retries = -1
        /\ call[r].tokenRequests = 1 /\ Truthy(call[r].token)
        /\ call[r].posts = 0
        /\ call[r].result.kind = "UnboundLocalError"

\* C19: a call_kra_endpoint call with max_retries >= 1 whose POSTs are
\* answered 401 only finitely often ends, with a body or with a failure,
\* whatever the other answers are, provided every request is answered.
C19_Terminates ==
    \A r \in ForwardSlots :
        <>[](call[r].pc # "refresh_wait")
        => ((Forwarding(r) /\ call[r].max_retries >= 1) ~> Ended(r))

\* a call with max_retries = 2 has ended after a POST answered 401, a
\* refresh and a POST answered 504
C19_Witness ==
    \E r \in ForwardSlots :
        /\ Forwarding(r) /\ Ended(r) /\ call[r].max_retries = 2
        /\ call[r].n401 = 1 /\ call[r].n504 = 1 /\ call[r].posts = 3

====
